---- MODULE Spec2Model ----
(***************************************************************************)
(* Model of the HtmxTodoList server (src/src/main.rs, src/src/errors.rs). *)
(*                                                                         *)
(* One session is modelled.  The session store holds two keys, "todos"     *)
(* (a BTreeMap<usize, Todo>) and "index" (a usize); each is an Option.     *)
(* Every handler is one action: it runs its session.get / session.insert   *)
(* calls in program order against the store and ends with an outcome.      *)
(* A handler's parameter `fail` is the ordinal of the store call that      *)
(* returns Err (0: none does); every store call is followed by .unwrap(),  *)
(* so an Err, like an unwrap of None, panics the handler.                  *)
(*                                                                         *)
(* Spec runs the requests one at a time, SpecFail lets store calls fail,   *)
(* and SpecConc interleaves the requests of the session at their store     *)
(* calls, each call taking effect on the store when it is made.            *)
(***************************************************************************)
EXTENDS Integers, Sequences, FiniteSets, TLC

VARIABLES store, last, created, everIds, deletedIds, toggledTwice,
          issued, procs, started, raced

vars == <<store, last, created, everIds, deletedIds, toggledTwice,
          issued, procs, started, raced>>

(* ---------------------------------------------------------------- bounds *)

\* create_todo is not taken once the stored counter has reached MaxIndex.
MaxIndex == 3

\* Path ids tried by toggle and delete: every id that can exist, and one more.
PathIds == 0 .. (MaxIndex + 1)

\* Form values of `content` (the empty string is accepted).
Contents == {"", "Buy milk"}

\* Form values of `sort`: the two recognised ones, the third option of the
\* page's <select>, and one unrecognised string.
Sorts == {"all", "done", "not done", "zzz"}

\* Requests of the session that may be in flight at once, and the number of
\* requests the interleaved specification starts.
NumProcs == 2
MaxRequests == 3

Procs == 1 .. NumProcs

(* ------------------------------------------------------- Option<T> values *)

None == <<>>
Some(v) == <<v>>
Unwrap(o) == o[1]

(* ------------------------------------------------------------ BTreeMap ops *)

Min(S) == CHOOSE x \in S : \A y \in S : x <= y

EmptyMap == [k \in {} |-> 0]

\* BTreeMap::insert: the key is added, or its value replaced.
BTreeInsert(m, k, v) == [x \in (DOMAIN m) \cup {k} |-> IF x = k THEN v ELSE m[x]]

\* BTreeMap::remove: the map without the key.
BTreeRemove(m, k) == [x \in (DOMAIN m) \ {k} |-> m[x]]

\* BTreeMap::into_iter: the (key, value) pairs in ascending key order.
RECURSIVE into_iter(_)
into_iter(m) ==
    IF DOMAIN m = {} THEN <<>>
    ELSE LET k == Min(DOMAIN m)
         IN  << <<k, m[k]>> >> \o into_iter(BTreeRemove(m, k))

(* ------------------------------------------------------------------ views *)

\* The Todo component: the element id is derived from the id, the status
\* label from the done flag.
Todo(id, todo) ==
    [elem    |-> <<"todo-", id>>,
     content |-> todo.content,
     label   |-> IF todo.done THEN "done" ELSE "not done",
     put     |-> <<"todos/", id>>,
     delete  |-> <<"todos/", id>>]

RECURSIVE collect_view(_)
collect_view(items) ==
    IF items = <<>> THEN <<>>
    ELSE <<Todo(items[1][1], items[1][2])>> \o collect_view(Tail(items))

(* ---------------------------------------------------------------- errors *)

NotFound == [kind |-> "NotFound", msg |-> ""]
InternalError(e) == [kind |-> "InternalError", msg |-> e]

\* impl IntoResponse for ApplicationError
into_response(err) ==
    IF err.kind = "NotFound"
    THEN [status |-> 404, body |-> <<"Not found">>]
    ELSE [status |-> 500, body |-> <<err.msg>>]

\* impl From<anyhow::Error> for ApplicationError
from(value) == InternalError(value)

(* ------------------------------------------------------- handler results *)

\* The handler returned a response.
Ok(s, body) ==
    [store |-> s, outcome |-> "ok", resp |-> [status |-> 200, body |-> body],
     storeErr |-> FALSE]

\* The handler returned Err(e): the response is e.into_response().
Err(s, e) ==
    [store |-> s, outcome |-> e.kind, resp |-> into_response(e),
     storeErr |-> FALSE]

\* An .unwrap() panicked: the handler is aborted and returns no response.
\* storeErr tells whether the unwrapped value was a store call's Err.
Panic(s, storeErr) ==
    [store |-> s, outcome |-> "panic", resp |-> [status |-> 0, body |-> <<>>],
     storeErr |-> storeErr]

(* -------------------------------------------------------------- handlers *)

FreshStore == [todos |-> None, index |-> None]

SeedMap == BTreeInsert(EmptyMap, 0, [content |-> "A faire", done |-> FALSE])

\* root, seeding whenever the stored list is absent or empty.
root_reseed(s, fail) ==
    IF fail = 1 THEN Panic(s, TRUE)
    ELSE
    LET seeding == (s.index = None \/ s.todos = None \/ s.todos = Some(EmptyMap))
        s1 == [s EXCEPT !.todos = Some(SeedMap)]
        s2 == [s1 EXCEPT !.index = Some(0)]
        s3 == IF seeding THEN s2 ELSE s
        g  == IF seeding THEN 4 ELSE 2
    IN  IF seeding /\ fail = 2 THEN Panic(s, TRUE)
        ELSE IF seeding /\ fail = 3 THEN Panic(s1, TRUE)
        ELSE IF fail = g THEN Panic(s3, TRUE)
        ELSE IF s3.todos = None THEN Panic(s3, FALSE)
        ELSE Ok(s3, collect_view(into_iter(Unwrap(s3.todos))))

\* root, seeding the counter with 1.
root_index1(s, fail) ==
    IF fail = 1 THEN Panic(s, TRUE)
    ELSE
    LET seeding == (s.index = None)
        s1 == [s EXCEPT !.todos = Some(SeedMap)]
        s2 == [s1 EXCEPT !.index = Some(1)]
        s3 == IF seeding THEN s2 ELSE s
        g  == IF seeding THEN 4 ELSE 2
    IN  IF seeding /\ fail = 2 THEN Panic(s, TRUE)
        ELSE IF seeding /\ fail = 3 THEN Panic(s1, TRUE)
        ELSE IF fail = g THEN Panic(s3, TRUE)
        ELSE IF s3.todos = None THEN Panic(s3, FALSE)
        ELSE Ok(s3, collect_view(into_iter(Unwrap(s3.todos))))

\* GET /
root(s, fail) ==
    IF fail = 1 THEN Panic(s, TRUE)
    ELSE
    LET seeding == (s.index = None)
        s1 == [s EXCEPT !.todos = Some(SeedMap)]
        s2 == [s1 EXCEPT !.index = Some(0)]
        s3 == IF seeding THEN s2 ELSE s
        \* ordinal of the final session.get(TODOS_KEY)
        g  == IF seeding THEN 4 ELSE 2
    IN  IF seeding /\ fail = 2 THEN Panic(s, TRUE)
        ELSE IF seeding /\ fail = 3 THEN Panic(s1, TRUE)
        ELSE IF fail = g THEN Panic(s3, TRUE)
        ELSE IF s3.todos = None THEN Panic(s3, FALSE)
        ELSE Ok(s3, collect_view(into_iter(Unwrap(s3.todos))))

\* filter, with the not-done predicate only for "not done".
filter_strict(sort, el) ==
    IF sort = "all" THEN TRUE
    ELSE IF sort = "done" THEN el[2].done
    ELSE IF sort = "not done" THEN ~ el[2].done
    ELSE TRUE

\* The filter get_todos selects from form.sort.
filter(sort, el) ==
    IF sort = "all" THEN TRUE
    ELSE IF sort = "done" THEN el[2].done
    ELSE ~ el[2].done

\* GET /todos
get_todos(s, sort, fail) ==
    IF fail = 1 THEN Panic(s, TRUE)
    ELSE IF s.todos = None THEN Panic(s, FALSE)
    ELSE LET todos == Unwrap(s.todos)
             keep(el) == filter(sort, el)
         IN  Ok(s, collect_view(SelectSeq(into_iter(todos), keep)))

\* put_todo, setting done instead of flipping it.
put_todo_set(s, id, fail) ==
    IF fail = 1 THEN Panic(s, TRUE)
    ELSE IF s.todos = None THEN Panic(s, FALSE)
    ELSE LET todos == Unwrap(s.todos)
         IN  IF id \notin DOMAIN todos THEN Err(s, NotFound)
             ELSE LET todo   == [todos[id] EXCEPT !.done = TRUE]
                      todos1 == [todos EXCEPT ![id] = todo]
                  IN  IF fail = 2 THEN Panic(s, TRUE)
                      ELSE Ok([s EXCEPT !.todos = Some(todos1)],
                              <<Todo(id, todo)>>)

\* PUT /todos/:id
put_todo(s, id, fail) ==
    IF fail = 1 THEN Panic(s, TRUE)
    ELSE IF s.todos = None THEN Panic(s, FALSE)
    ELSE LET todos == Unwrap(s.todos)
         IN  IF id \notin DOMAIN todos THEN Err(s, NotFound)
             ELSE LET todo   == [todos[id] EXCEPT !.done = ~ todos[id].done]
                      todos1 == [todos EXCEPT ![id] = todo]
                  IN  IF fail = 2 THEN Panic(s, TRUE)
                      ELSE Ok([s EXCEPT !.todos = Some(todos1)],
                              <<Todo(id, todo)>>)

\* create_todo, without writing the advanced counter back.
create_todo_noinc(s, content, fail) ==
    LET todo == [content |-> content, done |-> FALSE]
    IN  IF fail = 1 THEN Panic(s, TRUE)
        ELSE IF s.todos = None THEN Panic(s, FALSE)
        ELSE IF fail = 2 THEN Panic(s, TRUE)
        ELSE IF s.index = None THEN Panic(s, FALSE)
        ELSE LET todos == Unwrap(s.todos)
                 i     == Unwrap(s.index)
                 s2    == [s EXCEPT !.todos = Some(BTreeInsert(todos, i + 1, todo))]
             IN  IF fail = 3 THEN Panic(s, TRUE)
                 ELSE IF fail = 4 THEN Panic(s, TRUE)
                 ELSE Ok(s2, <<Todo(i + 1, todo)>>)

\* create_todo, inserting under the counter read instead of the advanced one.
create_todo_samekey(s, content, fail) ==
    LET todo == [content |-> content, done |-> FALSE]
    IN  IF fail = 1 THEN Panic(s, TRUE)
        ELSE IF s.todos = None THEN Panic(s, FALSE)
        ELSE IF fail = 2 THEN Panic(s, TRUE)
        ELSE IF s.index = None THEN Panic(s, FALSE)
        ELSE LET todos == Unwrap(s.todos)
                 i     == Unwrap(s.index)
                 s1    == [s EXCEPT !.index = Some(i + 1)]
                 s2    == [s1 EXCEPT !.todos = Some(BTreeInsert(todos, i, todo))]
             IN  IF fail = 3 THEN Panic(s, TRUE)
                 ELSE IF fail = 4 THEN Panic(s1, TRUE)
                 ELSE Ok(s2, <<Todo(i + 1, todo)>>)

\* create_todo, advancing the counter by two.
create_todo_skip(s, content, fail) ==
    LET todo == [content |-> content, done |-> FALSE]
    IN  IF fail = 1 THEN Panic(s, TRUE)
        ELSE IF s.todos = None THEN Panic(s, FALSE)
        ELSE IF fail = 2 THEN Panic(s, TRUE)
        ELSE IF s.index = None THEN Panic(s, FALSE)
        ELSE LET todos == Unwrap(s.todos)
                 i     == Unwrap(s.index)
                 s1    == [s EXCEPT !.index = Some(i + 2)]
                 s2    == [s1 EXCEPT !.todos = Some(BTreeInsert(todos, i + 2, todo))]
             IN  IF fail = 3 THEN Panic(s, TRUE)
                 ELSE IF fail = 4 THEN Panic(s1, TRUE)
                 ELSE Ok(s2, <<Todo(i + 2, todo)>>)

\* POST /todos
create_todo(s, content, fail) ==
    LET todo == [content |-> content, done |-> FALSE]
    IN  IF fail = 1 THEN Panic(s, TRUE)
        ELSE IF s.todos = None THEN Panic(s, FALSE)
        ELSE IF fail = 2 THEN Panic(s, TRUE)
        ELSE IF s.index = None THEN Panic(s, FALSE)
        ELSE LET todos == Unwrap(s.todos)
                 i     == Unwrap(s.index)
                 s1    == [s EXCEPT !.index = Some(i + 1)]
                 s2    == [s1 EXCEPT !.todos = Some(BTreeInsert(todos, i + 1, todo))]
             IN  IF fail = 3 THEN Panic(s, TRUE)
                 ELSE IF fail = 4 THEN Panic(s1, TRUE)
                 ELSE Ok(s2, <<Todo(i + 1, todo)>>)

\* delete_todo, cutting the list at the id (split_off) instead of removing it.
delete_todo_split(s, id, fail) ==
    IF fail = 1 THEN Panic(s, TRUE)
    ELSE IF s.todos = None THEN Panic(s, FALSE)
    ELSE LET todos == Unwrap(s.todos)
         IN  IF id \notin DOMAIN todos THEN Err(s, NotFound)
             ELSE IF fail = 2 THEN Panic(s, TRUE)
             ELSE Ok([s EXCEPT !.todos =
                         Some([x \in {k \in DOMAIN todos : k < id} |-> todos[x]])],
                     <<>>)

\* delete_todo, handing the id back to the counter when it was the last one.
delete_todo_reclaim(s, id, fail) ==
    IF fail = 1 THEN Panic(s, TRUE)
    ELSE IF s.todos = None THEN Panic(s, FALSE)
    ELSE LET todos == Unwrap(s.todos)
             s1    == IF s.index = Some(id) /\ id > 0
                      THEN [s EXCEPT !.index = Some(id - 1)] ELSE s
         IN  IF id \notin DOMAIN todos THEN Err(s, NotFound)
             ELSE IF fail = 2 THEN Panic(s, TRUE)
             ELSE Ok([s1 EXCEPT !.todos = Some(BTreeRemove(todos, id))], <<>>)

\* delete_todo, ignoring the result of remove.
delete_todo_ignore(s, id, fail) ==
    IF fail = 1 THEN Panic(s, TRUE)
    ELSE IF s.todos = None THEN Panic(s, FALSE)
    ELSE LET todos == Unwrap(s.todos)
         IN  IF fail = 2 THEN Panic(s, TRUE)
             ELSE Ok([s EXCEPT !.todos = Some(BTreeRemove(todos, id))], <<>>)

\* DELETE /todos/:id
delete_todo(s, id, fail) ==
    IF fail = 1 THEN Panic(s, TRUE)
    ELSE IF s.todos = None THEN Panic(s, FALSE)
    ELSE LET todos == Unwrap(s.todos)
         IN  IF id \notin DOMAIN todos THEN Err(s, NotFound)
             ELSE IF fail = 2 THEN Panic(s, TRUE)
             ELSE Ok([s EXCEPT !.todos = Some(BTreeRemove(todos, id))], <<>>)

(* ----------------------------------------------------------------- state *)

\* store      : the session's stored values
\* last       : the request handled last, with the store it found (pre) and
\*              how it ended
\* created    : the contents of the successful creates, in order
\* everIds    : every id that has been a key of the stored list
\* deletedIds : every id removed by a successful delete
\* toggledTwice : the last two requests were successful toggles of one id
\* issued     : the ids the successful creates returned, in order
\* procs      : the requests in flight: where each handler stands between
\*              its store calls, and the values it has read
\* started    : the number of requests started, when requests interleave
\* raced      : the kinds of the requests that ran while another request was
\*              in flight (empty: no two requests have overlapped)

NoRequest ==
    [op |-> "none", id |-> 0, content |-> "", sort |-> "", fail |-> 0,
     pre |-> FreshStore, outcome |-> "none",
     resp |-> [status |-> 0, body |-> <<>>], storeErr |-> FALSE]

Keys(s) == IF s.todos = None THEN {} ELSE DOMAIN Unwrap(s.todos)

\* A handler that is not running.  A running one holds the list (todos) and
\* the counter (index) it read, and the writes to the list that other
\* requests made since it read the list (missed).
Idle ==
    [pc |-> "idle", op |-> "none", id |-> 0, content |-> "",
     todos |-> None, index |-> None, missed |-> {}]

Init ==
    /\ store = FreshStore
    /\ last = NoRequest
    /\ created = <<>>
    /\ everIds = {}
    /\ deletedIds = {}
    /\ toggledTwice = FALSE
    /\ issued = <<>>
    /\ procs = [p \in Procs |-> Idle]
    /\ started = 0
    /\ raced = {}

\* A request ends with the result r.
Record(op, id, content, sort, fail, r) ==
    /\ store' = r.store
    /\ last' = [op |-> op, id |-> id, content |-> content, sort |-> sort,
                fail |-> fail, pre |-> store, outcome |-> r.outcome,
                resp |-> r.resp, storeErr |-> r.storeErr]
    /\ created' = IF op = "create" /\ r.outcome = "ok"
                  THEN Append(created, content) ELSE created
    /\ everIds' = everIds \cup Keys(r.store)
    /\ deletedIds' = IF op = "delete" /\ r.outcome = "ok"
                     THEN deletedIds \cup {id} ELSE deletedIds
    /\ toggledTwice' = /\ op = "put" /\ r.outcome = "ok"
                       /\ last.op = "put" /\ last.outcome = "ok"
                       /\ last.id = id
    /\ issued' = IF op = "create" /\ r.outcome = "ok"
                 THEN Append(issued, r.resp.body[1].elem[2]) ELSE issued

\* One request, handled from start to end: r is the handler's result.
Handle(op, id, content, sort, fail, r) ==
    /\ Record(op, id, content, sort, fail, r)
    /\ UNCHANGED <<procs, started, raced>>

\* The ordinals of the store calls that may fail in each handler (0: none).
NoFail == {0}
RootFails == 0 .. 4
GetTodosFails == 0 .. 1
PutFails == 0 .. 2
CreateFails == 0 .. 4
DeleteFails == 0 .. 2

Root(F) ==
    \E fail \in F : Handle("root", 0, "", "", fail, root(store, fail))

GetTodos(F) ==
    \E sort \in Sorts, fail \in F :
        Handle("get_todos", 0, "", sort, fail, get_todos(store, sort, fail))

PutTodo(F) ==
    \E id \in PathIds, fail \in F :
        Handle("put", id, "", "", fail, put_todo(store, id, fail))

CreateTodo(F) ==
    /\ store.index # None => Unwrap(store.index) < MaxIndex
    /\ \E content \in Contents, fail \in F :
        Handle("create", 0, content, "", fail, create_todo(store, content, fail))

DeleteTodo(F) ==
    \E id \in PathIds, fail \in F :
        Handle("delete", id, "", "", fail, delete_todo(store, id, fail))

\* The server as it runs: the session store is tower_sessions' MemoryStore,
\* whose calls do not fail.
Next ==
    \/ Root(NoFail)
    \/ GetTodos(NoFail)
    \/ PutTodo(NoFail)
    \/ CreateTodo(NoFail)
    \/ DeleteTodo(NoFail)

Spec == Init /\ [][Next]_vars

\* The server over a session store whose calls may return Err.
NextFail ==
    \/ Root(RootFails)
    \/ GetTodos(GetTodosFails)
    \/ PutTodo(PutFails)
    \/ CreateTodo(CreateFails)
    \/ DeleteTodo(DeleteFails)

SpecFail == Init /\ [][NextFail]_vars

(* ------------------------------------------------- interleaved requests *)

\* Every session.get(..).await and session.insert(..).await is a point where
\* the handler may be suspended and another request of the session may run.
\* A handler between two store calls keeps what it has read in procs[p]; the
\* values it writes are those the handler computes from what it read.

\* The list and the counter the handler p has read.
Snap(p) == [todos |-> procs[p].todos, index |-> procs[p].index]

\* The handler p holds a list it read and has not written back.
Holding(q) ==
    procs[q].pc \in {"put_insert", "delete_insert", "create_getindex",
                     "create_insindex", "create_instodos"}

\* p wrote the list and is finished: every other handler that holds a list
\* missed the write w.  The slot of p keeps what p did until it is taken again.
AfterWrite(p, w) ==
    [q \in Procs |->
        IF q = p THEN [procs[p] EXCEPT !.pc = "idle"]
        ELSE IF Holding(q)
             THEN [procs[q] EXCEPT !.missed = procs[q].missed \cup {w}]
             ELSE procs[q]]

\* A request of kind op starts in the free slot p.
Begin(p, op) ==
    /\ procs[p].pc = "idle"
    /\ started < MaxRequests
    /\ started' = started + 1
    /\ raced' = LET running == {q \in Procs \ {p} : procs[q].pc # "idle"}
                IN  IF running = {} THEN raced
                    ELSE raced \cup {op} \cup {procs[q].op : q \in running}

\* A step of a running handler that is not its last.
Continue(p, pc, todos, index) ==
    /\ procs' = [procs EXCEPT ![p].pc = pc, ![p].todos = todos,
                              ![p].index = index]
    /\ UNCHANGED <<last, created, deletedIds, toggledTwice, issued>>

\* main.rs:134 -- put_todo reads the list; a missing id ends the request.
PutGet(p) ==
    /\ Begin(p, "put")
    /\ \E id \in PathIds :
         LET r == put_todo(store, id, 0)
         IN  IF r.outcome = "ok"
             THEN /\ procs' = [procs EXCEPT ![p] =
                         [Idle EXCEPT !.pc = "put_insert", !.op = "put",
                                      !.id = id, !.todos = store.todos]]
                  /\ UNCHANGED <<store, last, created, everIds, deletedIds,
                                 toggledTwice, issued>>
             ELSE /\ Record("put", id, "", "", 0, [r EXCEPT !.store = store])
                  /\ UNCHANGED procs

\* main.rs:140 -- put_todo writes the list it read, with the flag flipped.
PutInsert(p) ==
    /\ procs[p].pc = "put_insert"
    /\ LET r == put_todo(Snap(p), procs[p].id, 0)
           s == [store EXCEPT !.todos = r.store.todos]
       IN  /\ Record("put", procs[p].id, "", "", 0, [r EXCEPT !.store = s])
           /\ procs' = AfterWrite(p, [op |-> "put", id |-> procs[p].id])
    /\ UNCHANGED <<started, raced>>

\* main.rs:174 -- delete_todo reads the list; a missing id ends the request.
DeleteGet(p) ==
    /\ Begin(p, "delete")
    /\ \E id \in PathIds :
         LET r == delete_todo(store, id, 0)
         IN  IF r.outcome = "ok"
             THEN /\ procs' = [procs EXCEPT ![p] =
                         [Idle EXCEPT !.pc = "delete_insert", !.op = "delete",
                                      !.id = id, !.todos = store.todos]]
                  /\ UNCHANGED <<store, last, created, everIds, deletedIds,
                                 toggledTwice, issued>>
             ELSE /\ Record("delete", id, "", "", 0, [r EXCEPT !.store = store])
                  /\ UNCHANGED procs

\* main.rs:176 -- delete_todo writes the list it read, without the id.
DeleteInsert(p) ==
    /\ procs[p].pc = "delete_insert"
    /\ LET r == delete_todo(Snap(p), procs[p].id, 0)
           s == [store EXCEPT !.todos = r.store.todos]
       IN  /\ Record("delete", procs[p].id, "", "", 0, [r EXCEPT !.store = s])
           /\ procs' = AfterWrite(p, [op |-> "delete", id |-> procs[p].id])
    /\ UNCHANGED <<started, raced>>

\* main.rs:162 -- create_todo reads the list.
CreateGetTodos(p) ==
    /\ Begin(p, "create")
    /\ store.index # None => Unwrap(store.index) < MaxIndex
    /\ \E content \in Contents :
         IF store.todos = None
         THEN /\ Record("create", 0, content, "", 0, Panic(store, FALSE))
              /\ UNCHANGED procs
         ELSE /\ procs' = [procs EXCEPT ![p] =
                     [Idle EXCEPT !.pc = "create_getindex", !.op = "create",
                                  !.content = content, !.todos = store.todos]]
              /\ UNCHANGED <<store, last, created, everIds, deletedIds,
                             toggledTwice, issued>>

\* main.rs:163 -- create_todo reads the counter.
CreateGetIndex(p) ==
    /\ procs[p].pc = "create_getindex"
    /\ IF store.index = None
       THEN /\ Record("create", 0, procs[p].content, "", 0, Panic(store, FALSE))
            /\ procs' = [procs EXCEPT ![p] = Idle]
       ELSE /\ Continue(p, "create_insindex", procs[p].todos, store.index)
            /\ UNCHANGED <<store, everIds>>
    /\ UNCHANGED <<started, raced>>

\* main.rs:164 -- create_todo writes the counter it read, plus one.
CreateInsIndex(p) ==
    /\ procs[p].pc = "create_insindex"
    /\ LET r == create_todo(Snap(p), procs[p].content, 0)
       IN  store' = [store EXCEPT !.index = r.store.index]
    /\ Continue(p, "create_instodos", procs[p].todos, procs[p].index)
    /\ UNCHANGED <<everIds, started, raced>>

\* main.rs:166 -- create_todo writes the list it read, with the new item.
CreateInsTodos(p) ==
    /\ procs[p].pc = "create_instodos"
    /\ LET r == create_todo(Snap(p), procs[p].content, 0)
           s == [store EXCEPT !.todos = r.store.todos]
       IN  /\ Record("create", 0, procs[p].content, "", 0, [r EXCEPT !.store = s])
           /\ procs' = AfterWrite(p, [op |-> "create",
                                     id |-> r.resp.body[1].elem[2]])
    /\ UNCHANGED <<started, raced>>

\* main.rs:54 -- root reads the counter.
RootGetIndex(p) ==
    /\ Begin(p, "root")
    /\ procs' = [procs EXCEPT ![p] =
           [Idle EXCEPT !.pc = IF store.index = None
                               THEN "root_instodos" ELSE "root_gettodos",
                        !.op = "root", !.index = store.index]]
    /\ UNCHANGED <<store, last, created, everIds, deletedIds, toggledTwice,
                   issued>>

\* main.rs:63 -- root writes the seed list.
RootInsTodos(p) ==
    /\ procs[p].pc = "root_instodos"
    /\ store' = [store EXCEPT !.todos = root(FreshStore, 0).store.todos]
    /\ everIds' = everIds \cup Keys(store')
    /\ procs' = [AfterWrite(p, [op |-> "root", id |-> 0])
                    EXCEPT ![p] = [procs[p] EXCEPT !.pc = "root_insindex"]]
    /\ UNCHANGED <<last, created, deletedIds, toggledTwice, issued,
                   started, raced>>

\* main.rs:64 -- root writes the counter 0.
RootInsIndex(p) ==
    /\ procs[p].pc = "root_insindex"
    /\ store' = [store EXCEPT !.index = root(FreshStore, 0).store.index]
    /\ Continue(p, "root_gettodos", procs[p].todos, procs[p].index)
    /\ UNCHANGED <<everIds, started, raced>>

\* main.rs:66 -- root reads the list and renders it.
RootGetTodos(p) ==
    /\ procs[p].pc = "root_gettodos"
    /\ Record("root", 0, "", "", 0,
              IF store.todos = None THEN Panic(store, FALSE)
              ELSE Ok(store, collect_view(into_iter(Unwrap(store.todos)))))
    /\ procs' = [procs EXCEPT ![p] = Idle]
    /\ UNCHANGED <<started, raced>>

\* main.rs:109 -- get_todos makes one store call.
GetTodosOnce ==
    /\ started < MaxRequests
    /\ started' = started + 1
    /\ \E sort \in Sorts :
         Record("get_todos", 0, "", sort, 0, get_todos(store, sort, 0))
    /\ UNCHANGED <<procs, raced>>

NextConc ==
    \/ \E p \in Procs : RootGetIndex(p)
    \/ \E p \in Procs : RootInsTodos(p)
    \/ \E p \in Procs : RootInsIndex(p)
    \/ \E p \in Procs : RootGetTodos(p)
    \/ GetTodosOnce
    \/ \E p \in Procs : PutGet(p)
    \/ \E p \in Procs : PutInsert(p)
    \/ \E p \in Procs : CreateGetTodos(p)
    \/ \E p \in Procs : CreateGetIndex(p)
    \/ \E p \in Procs : CreateInsIndex(p)
    \/ \E p \in Procs : CreateInsTodos(p)
    \/ \E p \in Procs : DeleteGet(p)
    \/ \E p \in Procs : DeleteInsert(p)

\* The server with the requests of the session interleaved at their store
\* calls.
SpecConc == Init /\ [][NextConc]_vars

(* ---------------------------------------------------------------- claims *)

Seeded == store.index # None

TodosOf(s) == Unwrap(s.todos)

\* The id a rendered item carries.
ElemId(item) == item.elem[2]

SeedItem == [content |-> "A faire", done |-> FALSE]

\* C1: the first list-page request on a fresh session stores exactly the
\* list {0: ("A faire", false)} and the counter 0; a list-page request on a
\* session that is not fresh leaves the stored list and counter as they
\* were, also when the list is empty.
C1_SeedOnce ==
    last.op = "root" =>
        /\ last.outcome = "ok"
        /\ IF last.pre = FreshStore
           THEN /\ store.index = Some(0)
                /\ store.todos # None
                /\ DOMAIN TodosOf(store) = {0}
                /\ TodosOf(store)[0] = SeedItem
           ELSE store = last.pre
        /\ Len(last.resp.body) = Cardinality(Keys(store))

\* A list-page request that found the list emptied by deletes, after creates.
C1_Witness ==
    /\ last.op = "root"
    /\ last.pre.todos = Some(EmptyMap)
    /\ Len(created) > 0
    /\ store.todos = Some(EmptyMap)

\* C2: the id a create assigns was never a key of the list before, and an
\* id removed by a successful delete is never again a key of the list.
C2_IdsNeverReused ==
    [][ /\ (last'.op = "create" /\ last'.outcome = "ok") =>
              /\ ElemId(last'.resp.body[1]) \notin everIds
              /\ ElemId(last'.resp.body[1]) \in Keys(store')
              /\ Keys(store') \ Keys(store) = {ElemId(last'.resp.body[1])}
        /\ deletedIds' \cap Keys(store') = {} ]_vars

\* A create that followed the delete of the item with the largest id.
C2_Witness ==
    /\ last.op = "create"
    /\ last.outcome = "ok"
    /\ Unwrap(last.pre.index) > 0
    /\ Unwrap(last.pre.index) \in deletedIds

\* C3: a toggle or delete of an id that is not a key of the stored list
\* ends with NotFound (404) and leaves the stored list and counter as they
\* were.
C3_NotFoundUnchanged ==
    (/\ last.op \in {"put", "delete"}
     /\ last.pre.todos # None
     /\ last.id \notin Keys(last.pre)) =>
        /\ last.outcome = "NotFound"
        /\ last.resp.status = 404
        /\ store = last.pre

\* A delete of an id, and a toggle of an id, that an earlier delete removed.
C3_Witness ==
    /\ last.op \in {"put", "delete"}
    /\ last.outcome = "NotFound"
    /\ last.id \in deletedIds
    /\ Keys(store) # {}

\* C4: a toggle of a present id negates that item's done flag and returns
\* the item with the new value; a second toggle of the same id right after
\* the first restores the stored list the first one found.
C4_ToggleInvolution ==
    [][ (last'.op = "put" /\ store.todos # None /\ last'.id \in Keys(store)) =>
          LET id == last'.id IN
          /\ last'.outcome = "ok"
          /\ Keys(store') = Keys(store)
          /\ TodosOf(store')[id].done = ~ TodosOf(store)[id].done
          /\ Len(last'.resp.body) = 1
          /\ ElemId(last'.resp.body[1]) = id
          /\ last'.resp.body[1].content = TodosOf(store)[id].content
          /\ last'.resp.body[1].label =
                 (IF TodosOf(store)[id].done THEN "not done" ELSE "done")
          /\ (last.op = "put" /\ last.outcome = "ok" /\ last.id = id) =>
                 store' = last.pre ]_vars

\* Two successful toggles of one id in a row, in a list of several items.
C4_Witness ==
    /\ toggledTwice
    /\ last.id > 0
    /\ Cardinality(Keys(store)) >= 2

\* The ids the filtered list of `sort` is to show, of the list m.
Wanted(m, sort) ==
    IF sort = "all" THEN DOMAIN m
    ELSE IF sort = "done" THEN {k \in DOMAIN m : m[k].done}
    ELSE {k \in DOMAIN m : ~ m[k].done}

\* C5: the filtered-list request changes no stored state and returns, in
\* ascending id order, all items for sort "all", exactly the done items for
\* "done", and exactly the items that are not done for any other value.
C5_FilteredList ==
    (last.op = "get_todos" /\ last.pre.todos # None) =>
        LET m    == TodosOf(last.pre)
            body == last.resp.body
        IN  /\ last.outcome = "ok"
            /\ store = last.pre
            /\ {ElemId(body[i]) : i \in 1 .. Len(body)} = Wanted(m, last.sort)
            /\ \A i \in 1 .. Len(body), j \in 1 .. Len(body) :
                   i < j => ElemId(body[i]) < ElemId(body[j])
            /\ \A i \in 1 .. Len(body) :
                   /\ body[i].content = m[ElemId(body[i])].content
                   /\ body[i].label =
                          (IF m[ElemId(body[i])].done THEN "done" ELSE "not done")

\* An unrecognised sort value over a list with done and not-done items.
C5_Witness ==
    /\ last.op = "get_todos"
    /\ last.sort = "zzz"
    /\ Len(last.resp.body) >= 2
    /\ Len(last.resp.body) < Cardinality(Keys(store))

\* C6: in a seeded session with N successful creates and no delete, the
\* ids in the list are exactly 0 .. N, the seed is at id 0 and the k-th
\* created item is at id k.
C6_IdsAreZeroToN ==
    (Seeded /\ deletedIds = {}) =>
        /\ store.todos # None
        /\ Keys(store) = 0 .. Len(created)
        /\ TodosOf(store)[0].content = "A faire"
        /\ \A k \in 1 .. Len(created) : TodosOf(store)[k].content = created[k]

\* Several creates of different contents and no delete.
C6_Witness ==
    /\ Seeded
    /\ deletedIds = {}
    /\ Len(created) >= 2
    /\ created[1] # created[2]

\* C7 as stated: in a seeded session with N successful creates the stored
\* counter is N + 1.
C7_CounterIsNPlusOne ==
    Seeded => Unwrap(store.index) = Len(created) + 1

\* C7 amended: in a seeded session with N successful creates the stored
\* counter is N.
C7_CounterIsN ==
    Seeded => Unwrap(store.index) = Len(created)

\* Several creates, some of them deleted again.
C7_Witness ==
    /\ Seeded
    /\ Len(created) >= 2
    /\ deletedIds # {}

\* C8: a create with content c on an initialized session whose counter is i
\* stores the counter i + 1, inserts (c, false) under id i + 1, returns that
\* item with id i + 1 and leaves every item present before unchanged.
C8_Create ==
    (last.op = "create" /\ last.pre.todos # None /\ last.pre.index # None) =>
        LET i   == Unwrap(last.pre.index)
            old == TodosOf(last.pre)
        IN  /\ last.outcome = "ok"
            /\ store.index = Some(i + 1)
            /\ DOMAIN TodosOf(store) = (DOMAIN old) \cup {i + 1}
            /\ TodosOf(store)[i + 1] = [content |-> last.content, done |-> FALSE]
            /\ \A k \in DOMAIN old : TodosOf(store)[k] = old[k]
            /\ Len(last.resp.body) = 1
            /\ ElemId(last.resp.body[1]) = i + 1
            /\ last.resp.body[1].content = last.content
            /\ last.resp.body[1].label = "not done"

\* A create of the empty content in a list that holds a done item.
C8_Witness ==
    /\ last.op = "create"
    /\ last.outcome = "ok"
    /\ last.content = ""
    /\ \E k \in Keys(last.pre) : TodosOf(last.pre)[k].done

\* C9 as stated: every request that finds no stored list seeds the session
\* with {0: ("A faire", false)} and the counter 0 and completes normally.
C9_EveryHandlerSeeds ==
    (last.op # "none" /\ last.pre.todos = None) =>
        /\ last.outcome = "ok"
        /\ store.index # None
        /\ store.todos # None
        /\ 0 \in Keys(store)

\* C10 as stated: a request in which a session-store call fails ends with
\* the InternalError outcome, a server-error response.
C10_StoreFailureIsInternalError ==
    last.storeErr =>
        /\ last.outcome = "InternalError"
        /\ last.resp.status = 500

\* C13: a successful toggle of id k changes only the done flag of item k,
\* a successful delete of id k removes only key k, both leave every other
\* item and the stored counter as they were; no request changes the content
\* of an item that stays in the list.
C13_FrameEffect ==
    [][ /\ (last'.op = "put" /\ last'.outcome = "ok") =>
              /\ Keys(store') = Keys(store)
              /\ \A k \in Keys(store) \ {last'.id} :
                     TodosOf(store')[k] = TodosOf(store)[k]
              /\ TodosOf(store')[last'.id].content =
                     TodosOf(store)[last'.id].content
              /\ TodosOf(store')[last'.id].done # TodosOf(store)[last'.id].done
              /\ store'.index = store.index
        /\ (last'.op = "delete" /\ last'.outcome = "ok") =>
              /\ last'.id \in Keys(store)
              /\ Keys(store') = Keys(store) \ {last'.id}
              /\ \A k \in Keys(store') : TodosOf(store')[k] = TodosOf(store)[k]
              /\ store'.index = store.index
        /\ \A k \in Keys(store) \cap Keys(store') :
              TodosOf(store')[k].content = TodosOf(store)[k].content ]_vars

\* A delete that left a done item with a larger id in the list.
C13_Witness ==
    /\ last.op = "delete"
    /\ last.outcome = "ok"
    /\ \E k \in Keys(store) : k > last.id /\ TodosOf(store)[k].done

\* C14: on an initialized session the stored counter is at least every id
\* in the list and never decreases: toggle, delete, list and filter requests
\* leave it as it is and each create adds exactly 1.
C14_CounterMonotone ==
    [][ /\ Seeded' => \A k \in Keys(store') : k <= Unwrap(store'.index)
        /\ Seeded =>
              /\ Seeded'
              /\ Unwrap(store'.index) >= Unwrap(store.index)
              /\ Unwrap(store'.index) =
                     (IF last'.op = "create"
                      THEN Unwrap(store.index) + 1 ELSE Unwrap(store.index)) ]_vars

\* The item with the largest id was deleted and the counter stayed above
\* every id left.
C14_Witness ==
    /\ Seeded
    /\ last.op = "delete"
    /\ last.outcome = "ok"
    /\ last.id = Unwrap(store.index)
    /\ last.id >= 2
    /\ Keys(store) # {}

\* The handler q makes its last store call, the write of the list, in this
\* step.
WritesList(q) ==
    /\ procs[q].pc \in {"put_insert", "delete_insert", "create_instodos"}
    /\ procs'[q].pc = "idle"

\* The list the request of q is to produce from the list m it read.
EffectOn(m, q) ==
    IF procs[q].op = "put"
    THEN [k \in DOMAIN m |->
             IF k = procs[q].id
             THEN [content |-> m[k].content, done |-> ~ m[k].done] ELSE m[k]]
    ELSE IF procs[q].op = "delete"
    THEN [k \in (DOMAIN m) \ {procs[q].id} |-> m[k]]
    ELSE [k \in (DOMAIN m) \cup {Unwrap(procs[q].index) + 1} |->
             IF k = Unwrap(procs[q].index) + 1
             THEN [content |-> procs[q].content, done |-> FALSE] ELSE m[k]]

\* The ids the request of q changes in the list.
Touched(q) ==
    IF procs[q].op = "create" THEN {Unwrap(procs[q].index) + 1}
    ELSE {procs[q].id}

\* C11: when a create, toggle or delete writes the list back after another
\* mutating request wrote it since the first one read it, the request still
\* completes successfully and the stored list is the list it read with its
\* own change only: the other request's change is not in the stored list.
C11_LastWriteWins ==
    [][ \A q \in Procs :
          (WritesList(q) /\ procs[q].missed # {}) =>
             LET m == Unwrap(procs[q].todos) IN
             /\ last'.outcome = "ok"
             /\ store'.todos = Some(EffectOn(m, q))
             /\ \A w \in procs[q].missed :
                   (w.id \notin Touched(q)) =>
                      /\ (w.op = "create" /\ w.id \notin DOMAIN m) =>
                             w.id \notin Keys(store')
                      /\ (w.op = "delete" /\ w.id \in DOMAIN m) =>
                             w.id \in Keys(store')
                      /\ (w.op = "put" /\ w.id \in DOMAIN m) =>
                             TodosOf(store')[w.id] = m[w.id] ]_vars

\* A toggle has written the list back after a create that it missed: the
\* created item is not in the stored list.
C11_Witness ==
    \E q \in Procs :
        /\ procs[q].pc = "idle"
        /\ procs[q].op = "put"
        /\ last.op = "put"
        /\ last.outcome = "ok"
        /\ \E w \in procs[q].missed :
              /\ w.op = "create"
              /\ w.id \in everIds
              /\ w.id \notin Keys(store)
              /\ w.id \notin deletedIds

NoDuplicates(seq) ==
    \A i \in 1 .. Len(seq), j \in 1 .. Len(seq) : i # j => seq[i] # seq[j]

\* C12 as stated: when only create requests run concurrently, under every
\* interleaving no two successful creates return the same id, and once no
\* request is in flight every created item (none having been deleted) is in
\* the stored list.
C12_UniqueUnderInterleaving ==
    raced \subseteq {"create"} =>
        /\ NoDuplicates(issued)
        /\ ((\A p \in Procs : procs[p].pc = "idle") /\ deletedIds = {}) =>
               \A i \in 1 .. Len(issued) : issued[i] \in Keys(store)

\* C12 amended: a create returns the counter it read plus one and its item
\* is in the stored list under that id when the create finishes; as long as
\* no request of the session has started while another was in flight, no
\* two creates have returned the same id and, no item having been deleted,
\* every created item is in the stored list.
C12_UniqueWithoutOverlap ==
    [][ /\ \A p \in Procs :
              (procs[p].pc = "create_instodos" /\ procs'[p].pc = "idle") =>
                 LET id == Unwrap(procs[p].index) + 1 IN
                 /\ last'.outcome = "ok"
                 /\ ElemId(last'.resp.body[1]) = id
                 /\ id \in Keys(store')
                 /\ TodosOf(store')[id] =
                        [content |-> procs[p].content, done |-> FALSE]
        /\ raced' = {} =>
              /\ NoDuplicates(issued')
              /\ deletedIds' = {} =>
                    \A i \in 1 .. Len(issued') : issued'[i] \in Keys(store') ]_vars

\* Two creates ran interleaved: the second to finish returned the id the
\* first had returned, and its item is the one in the stored list.
C12_Witness ==
    /\ raced = {"create"}
    /\ last.op = "create"
    /\ last.outcome = "ok"
    /\ Len(issued) >= 2
    /\ issued[Len(issued)] = issued[Len(issued) - 1]
    /\ issued[Len(issued)] \in Keys(store)
    /\ \A p \in Procs : procs[p].pc = "idle"

====
